---- MODULE Spec2Model ----
(***************************************************************************)
(* Model of utils/templating.Template (the three-engine renderer) and of   *)
(* scrapers/aws CostScraper.Scrape / FetchCosts.                           *)
(*                                                                         *)
(* Go strings that the program builds (rendered output, buffers) are       *)
(* sequences of one-character strings, so that TrimSpace and Sprint are    *)
(* computed rather than assumed.  Template bodies are opaque tokens: the   *)
(* engines (goja, text/template, expr) are libraries, modelled by what     *)
(* they return for each body.                                              *)
(***************************************************************************)
EXTENDS Integers, Sequences, FiniteSets, TLC

VARIABLES pc, environment, template, vm, heap, todo, vmOut, data,
          unstructured, ret, trace,
          spc, awsConfigs, ai, configItems, ci, results

tvars == <<pc, environment, template, vm, heap, todo, vmOut, data,
           unstructured, ret, trace>>
cvars == <<spc, awsConfigs, ai, configItems, ci, results>>
vars == <<pc, environment, template, vm, heap, todo, vmOut, data,
          unstructured, ret, trace,
          spc, awsConfigs, ai, configItems, ci, results>>

(***************************************************************************)
(* Input universe                                                          *)
(***************************************************************************)
\* Callers of Template (goroutines).
NumCallers == 2
Procs == 1 .. NumCallers
Caller1 == {1}

\* Keys an environment may hold.  NaN and Infinity are read-only properties
\* of the script runtime's global object.
Keys == {"x", "NaN", "Infinity"}
ReadOnlyGlobals == {"NaN", "Infinity"}
\* encoding/json writes map keys in sorted order.
KeyOrder == <<"Infinity", "NaN", "x">>

Absent == "absent"
\* Kinds of environment value: a Go string, a Go func.
Vals == {"str", "func"}
Envs == [Keys -> Vals \cup {Absent}]
Present(e) == {k \in Keys : e[k] # Absent}

\* The Go string every "str" entry holds (with surrounding blanks).
StrVal == <<" ", "h", "i", " ">>

JsBodies == {"", "x", "1", "true", "({})", "undefined", "null", "throw 1"}
TplBodies == {"", "{{", " lit ", "{{.x}}", "a{{.x.y}}"}
ExprBodies == {"", "(", "1 + 2", "[1][5]"}
Specs == [Javascript : JsBodies, Template : TplBodies, Expression : ExprBodies]

\* Inputs of the concurrent specification: script renders only, over string
\* entries, the two read-only keys present together or not at all.
ConcEnvs ==
    {e \in Envs : /\ \A k \in Keys : e[k] \in {"str", Absent}
                  /\ e["NaN"] = e["Infinity"]}
ConcSpecs == [Javascript : {"x", "1", "null"}, Template : {""}, Expression : {""}]

(***************************************************************************)
(* Values                                                                  *)
(***************************************************************************)
EmptyStr == <<>>
EmptyGlobals == [k \in Keys |-> Absent]
NoValue == [kind |-> "none", s |-> EmptyStr]
NoRet == [s |-> EmptyStr, err |-> "pending", key |-> "", typ |-> ""]
Ok(s) == [s |-> s, err |-> "nil", key |-> "", typ |-> ""]
Err(class, key, typ) == [s |-> EmptyStr, err |-> class, key |-> key, typ |-> typ]

\* Which engine a library call belongs to.
EngineOf(op) ==
    IF op \in {"goja.New", "vm.Set", "vm.RunString", "Export"} THEN "javascript"
    ELSE IF op \in {"Parse", "json.Marshal", "json.Unmarshal", "Execute", "TrimSpace"}
         THEN "gotemplate"
    ELSE "expr"

(***************************************************************************)
(* Library behaviour used by Template                                      *)
(***************************************************************************)
\* Dispatch order of Template: Javascript, then Template, then Expression.
SelectEngine_tplFirst(t) ==
    IF t.Template # "" THEN "gotemplate"
    ELSE IF t.Javascript # "" THEN "javascript"
    ELSE IF t.Expression # "" THEN "expr"
    ELSE "none"

SelectEngine_default(t) ==
    IF t.Javascript # "" THEN "javascript"
    ELSE IF t.Template # "" THEN "gotemplate"
    ELSE "expr"

SelectEngine(t) ==
    IF t.Javascript # "" THEN "javascript"
    ELSE IF t.Template # "" THEN "gotemplate"
    ELSE IF t.Expression # "" THEN "expr"
    ELSE "none"

\* Interpreter identities.
VmIds == 1 .. Cardinality(Procs)

\* goja.New(): a new interpreter with no user globals.
GojaNew_shared(h) ==
    IF 1 \in DOMAIN h THEN [id |-> 1, heap |-> h]
    ELSE [id |-> 1, heap |-> h @@ (1 :> EmptyGlobals)]

GojaNew(h) ==
    LET id == CHOOSE i \in VmIds \ DOMAIN h : \A j \in VmIds \ DOMAIN h : i <= j
    IN [id |-> id, heap |-> h @@ (id :> EmptyGlobals)]

\* Interpreters no caller refers to any more are reclaimed.
Collect(h, live) == [i \in (DOMAIN h) \cap live |-> h[i]]

\* vm.Set(k, v) fails when k is a read-only property of the global object.
VmSetFails(k, v) == k \in ReadOnlyGlobals

\* vm.RunString(body) against the interpreter's globals.
JsEval(body, globals) ==
    IF body = "x" THEN
        IF globals["x"] = Absent THEN [err |-> TRUE, val |-> NoValue]
        ELSE IF globals["x"] = "str"
             THEN [err |-> FALSE, val |-> [kind |-> "string", s |-> StrVal]]
        ELSE [err |-> FALSE, val |-> [kind |-> "function", s |-> EmptyStr]]
    ELSE IF body = "1" THEN [err |-> FALSE, val |-> [kind |-> "number", s |-> EmptyStr]]
    ELSE IF body = "true" THEN [err |-> FALSE, val |-> [kind |-> "boolean", s |-> EmptyStr]]
    ELSE IF body = "({})" THEN [err |-> FALSE, val |-> [kind |-> "object", s |-> EmptyStr]]
    ELSE IF body = "undefined"
         THEN [err |-> FALSE, val |-> [kind |-> "undefined", s |-> EmptyStr]]
    ELSE IF body = "null" THEN [err |-> FALSE, val |-> [kind |-> "null", s |-> EmptyStr]]
    ELSE [err |-> TRUE, val |-> NoValue]

\* vmOut.ExportType(): the reflect.Type of the exported Go value; undefined
\* and null export as nil and their type is the nil reflect.Type.
ExportType(val) ==
    IF val.kind = "string" THEN "string"
    ELSE IF val.kind = "number" THEN "int64"
    ELSE IF val.kind = "boolean" THEN "bool"
    ELSE IF val.kind = "object" THEN "map[string]interface {}"
    ELSE IF val.kind = "function" THEN "func()"
    ELSE "nil"

\* reflect.Type.Name(): the name of a defined type, "" for an unnamed one.
TypeName(t) == IF t \in {"string", "int64", "bool"} THEN t ELSE ""

(***************************************************************************)
(* Template: entry and the javascript path                                 *)
(***************************************************************************)
Live(p) == {vm[q] : q \in Procs \ {p}} \ {0}

FirstPc(t) ==
    LET e == SelectEngine(t)
    IN IF e = "javascript" THEN "js_new"
       ELSE IF e = "gotemplate" THEN "tpl_parse"
       ELSE IF e = "expr" THEN "expr_compile"
       ELSE "done"

\* A caller invokes Template(environment, template).
CallWith(p, E, T) ==
    /\ pc[p] = "idle"
    /\ \E e \in E, t \in T :
        /\ environment' = [environment EXCEPT ![p] = e]
        /\ template' = [template EXCEPT ![p] = t]
        /\ pc' = [pc EXCEPT ![p] = FirstPc(t)]
        /\ ret' = [ret EXCEPT ![p] = IF FirstPc(t) = "done" THEN Ok(EmptyStr) ELSE NoRet]
    /\ UNCHANGED <<vm, heap, todo, vmOut, data, unstructured, trace>>
    /\ UNCHANGED cvars

Call(p) == CallWith(p, Envs, Specs)

ConcCall(p) == CallWith(p, ConcEnvs, ConcSpecs)

\* vm := goja.New(); the range loop over environment starts.
JsNew(p) ==
    /\ pc[p] = "js_new"
    /\ LET r == GojaNew(heap)
       IN /\ vm' = [vm EXCEPT ![p] = r.id]
          /\ heap' = r.heap
    /\ todo' = [todo EXCEPT ![p] = Present(environment[p])]
    /\ trace' = [trace EXCEPT ![p] = Append(@, "goja.New")]
    /\ pc' = [pc EXCEPT ![p] = "js_bind"]
    /\ UNCHANGED <<environment, template, vmOut, data, unstructured, ret>>
    /\ UNCHANGED cvars

\* One iteration of the loop, vm.Set(k, v) succeeding.  Map iteration order
\* is unspecified: any remaining key may come next.
JsSetOk(p) ==
    /\ pc[p] = "js_bind"
    /\ \E k \in todo[p] :
        /\ ~VmSetFails(k, environment[p][k])
        /\ heap' = [heap EXCEPT ![vm[p]][k] = environment[p][k]]
        /\ todo' = [todo EXCEPT ![p] = @ \ {k}]
    /\ trace' = [trace EXCEPT ![p] = Append(@, "vm.Set")]
    /\ UNCHANGED <<pc, environment, template, vm, vmOut, data, unstructured, ret>>
    /\ UNCHANGED cvars

JsSetFail_continue(p) ==
    /\ pc[p] = "js_bind"
    /\ \E k \in todo[p] :
        /\ VmSetFails(k, environment[p][k])
        /\ todo' = [todo EXCEPT ![p] = @ \ {k}]
    /\ trace' = [trace EXCEPT ![p] = Append(@, "vm.Set")]
    /\ UNCHANGED <<pc, environment, template, vm, heap, vmOut, data, unstructured, ret>>
    /\ UNCHANGED cvars

JsSetFail_break(p) ==
    /\ pc[p] = "js_bind"
    /\ \E k \in todo[p] :
        /\ VmSetFails(k, environment[p][k])
        /\ todo' = [todo EXCEPT ![p] = {}]
    /\ trace' = [trace EXCEPT ![p] = Append(@, "vm.Set")]
    /\ UNCHANGED <<pc, environment, template, vm, heap, vmOut, data, unstructured, ret>>
    /\ UNCHANGED cvars

\* vm.Set(k, v) fails: return "", "error setting k".
JsSetFail(p) ==
    /\ pc[p] = "js_bind"
    /\ \E k \in todo[p] :
        /\ VmSetFails(k, environment[p][k])
        /\ ret' = [ret EXCEPT ![p] = Err("error setting", k, "")]
    /\ trace' = [trace EXCEPT ![p] = Append(@, "vm.Set")]
    /\ pc' = [pc EXCEPT ![p] = "done"]
    /\ vm' = [vm EXCEPT ![p] = 0]
    /\ heap' = Collect(heap, Live(p))
    /\ UNCHANGED <<environment, template, todo, vmOut, data, unstructured>>
    /\ UNCHANGED cvars

\* vm.RunString(template.Javascript) fails.
JsRunFail(p) ==
    /\ pc[p] = "js_bind"
    /\ todo[p] = {}
    /\ JsEval(template[p].Javascript, heap[vm[p]]).err
    /\ ret' = [ret EXCEPT ![p] = Err("failed to run javascript", "", "")]
    /\ trace' = [trace EXCEPT ![p] = Append(@, "vm.RunString")]
    /\ pc' = [pc EXCEPT ![p] = "done"]
    /\ vm' = [vm EXCEPT ![p] = 0]
    /\ heap' = Collect(heap, Live(p))
    /\ UNCHANGED <<environment, template, todo, vmOut, data, unstructured>>
    /\ UNCHANGED cvars

\* vm.RunString succeeds with vmOut.
JsRunOk(p) ==
    /\ pc[p] = "js_bind"
    /\ todo[p] = {}
    /\ LET r == JsEval(template[p].Javascript, heap[vm[p]])
       IN /\ ~r.err
          /\ vmOut' = [vmOut EXCEPT ![p] = r.val]
    /\ trace' = [trace EXCEPT ![p] = Append(@, "vm.RunString")]
    /\ pc' = [pc EXCEPT ![p] = "js_export"]
    /\ UNCHANGED <<environment, template, vm, heap, todo, data, unstructured, ret>>
    /\ UNCHANGED cvars

\* vmOut.Export().(string) succeeds: return s, nil.
JsReturnString(p) ==
    /\ pc[p] = "js_export"
    /\ ExportType(vmOut[p]) = "string"
    /\ ret' = [ret EXCEPT ![p] = Ok(vmOut[p].s)]
    /\ trace' = [trace EXCEPT ![p] = Append(@, "Export")]
    /\ pc' = [pc EXCEPT ![p] = "done"]
    /\ vm' = [vm EXCEPT ![p] = 0]
    /\ heap' = Collect(heap, Live(p))
    /\ UNCHANGED <<environment, template, todo, vmOut, data, unstructured>>
    /\ UNCHANGED cvars

\* The assertion fails and the exported type is not nil:
\* return "", "failed to cast output to string; it is of type <Name()>".
JsCastFail(p) ==
    /\ pc[p] = "js_export"
    /\ ExportType(vmOut[p]) \notin {"string", "nil"}
    /\ ret' = [ret EXCEPT ![p] =
                 Err("failed to cast output to string", "", TypeName(ExportType(vmOut[p])))]
    /\ trace' = [trace EXCEPT ![p] = Append(@, "Export")]
    /\ pc' = [pc EXCEPT ![p] = "done"]
    /\ vm' = [vm EXCEPT ![p] = 0]
    /\ heap' = Collect(heap, Live(p))
    /\ UNCHANGED <<environment, template, todo, vmOut, data, unstructured>>
    /\ UNCHANGED cvars

\* The assertion fails and ExportType() is the nil reflect.Type: calling
\* Name() on it is a nil dereference, Template panics and returns nothing.
JsCastPanic(p) ==
    /\ pc[p] = "js_export"
    /\ ExportType(vmOut[p]) = "nil"
    /\ trace' = [trace EXCEPT ![p] = Append(@, "Export")]
    /\ pc' = [pc EXCEPT ![p] = "panic"]
    /\ vm' = [vm EXCEPT ![p] = 0]
    /\ heap' = Collect(heap, Live(p))
    /\ UNCHANGED <<environment, template, todo, vmOut, data, unstructured, ret>>
    /\ UNCHANGED cvars

(***************************************************************************)
(* Template: the gotemplate path                                           *)
(***************************************************************************)
\* tpl.Funcs(...).Parse(body) rejects a malformed body.
ParseFails(body) == body = "{{"

RECURSIVE Pairs(_, _)
\* The members of a JSON object, in key order, from the i-th key on.
Pairs(e, i) ==
    IF i > Len(KeyOrder) THEN <<>>
    ELSE LET k == KeyOrder[i]
         IN (IF e[k] = Absent THEN <<>> ELSE <<k, e[k]>>) \o Pairs(e, i + 1)

JsonMarshal_drop(e) ==
    LET kept == [k \in Keys |-> IF e[k] = "func" THEN Absent ELSE e[k]]
    IN [data |-> <<"{">> \o Pairs(kept, 1) \o <<"}">>, err |-> FALSE]

\* json.Marshal(environment): an unsupported value (a func) fails the whole
\* encoding, which returns no bytes and an UnsupportedTypeError.
JsonMarshal(e) ==
    IF \E k \in Keys : e[k] = "func" THEN [data |-> <<>>, err |-> TRUE]
    ELSE [data |-> <<"{">> \o Pairs(e, 1) \o <<"}">>, err |-> FALSE]

\* json.Unmarshal(data, &unstructured): no bytes is "unexpected end of JSON
\* input"; otherwise the object's members become the map's entries.
JsonUnmarshal(d) ==
    IF Len(d) = 0 THEN [m |-> EmptyGlobals, err |-> TRUE]
    ELSE [m |-> [k \in Keys |->
                   IF \E i \in 1 .. Len(d) - 1 : i % 2 = 0 /\ d[i] = k
                   THEN d[(CHOOSE i \in 1 .. Len(d) - 1 : i % 2 = 0 /\ d[i] = k) + 1]
                   ELSE Absent],
          err |-> FALSE]

\* tpl.Execute(&buf, unstructured): what was written to buf, and the error.
TplExecute(body, m) ==
    IF body = " lit " THEN [buf |-> <<" ", "l", "i", "t", " ">>, err |-> FALSE]
    ELSE IF body = "{{.x}}"
         THEN [buf |-> IF m["x"] = Absent
                       THEN <<"<", "n", "o", " ", "v", "a", "l", "u", "e", ">">>
                       ELSE StrVal,
               err |-> FALSE]
    ELSE [buf |-> <<"a">>, err |-> TRUE]

IsSpace(c) == c \in {" ", "\t", "\n", "\r"}

RECURSIVE TrimLeft(_)
TrimLeft(s) == IF Len(s) > 0 /\ IsSpace(Head(s)) THEN TrimLeft(Tail(s)) ELSE s

RECURSIVE TrimRight(_)
TrimRight(s) ==
    IF Len(s) > 0 /\ IsSpace(s[Len(s)]) THEN TrimRight(SubSeq(s, 1, Len(s) - 1)) ELSE s

\* strings.TrimSpace
TrimSpace(s) == TrimRight(TrimLeft(s))

TplParseFail_afterMarshal(p) ==
    /\ pc[p] = "tpl_parse"
    /\ ParseFails(template[p].Template)
    /\ ret' = [ret EXCEPT ![p] = Err("parse", "", "")]
    /\ data' = [data EXCEPT ![p] = JsonMarshal(environment[p]).data]
    /\ trace' = [trace EXCEPT ![p] = @ \o <<"json.Marshal", "Parse">>]
    /\ pc' = [pc EXCEPT ![p] = "done"]
    /\ UNCHANGED <<environment, template, vm, heap, todo, vmOut, unstructured>>
    /\ UNCHANGED cvars

\* Parse fails: return "", err.
TplParseFail(p) ==
    /\ pc[p] = "tpl_parse"
    /\ ParseFails(template[p].Template)
    /\ ret' = [ret EXCEPT ![p] = Err("parse", "", "")]
    /\ trace' = [trace EXCEPT ![p] = Append(@, "Parse")]
    /\ pc' = [pc EXCEPT ![p] = "done"]
    /\ UNCHANGED <<environment, template, vm, heap, todo, vmOut, data, unstructured>>
    /\ UNCHANGED cvars

TplParseOk(p) ==
    /\ pc[p] = "tpl_parse"
    /\ ~ParseFails(template[p].Template)
    /\ trace' = [trace EXCEPT ![p] = Append(@, "Parse")]
    /\ pc' = [pc EXCEPT ![p] = "tpl_marshal"]
    /\ UNCHANGED <<environment, template, vm, heap, todo, vmOut, data, unstructured, ret>>
    /\ UNCHANGED cvars

\* data, _ := json.Marshal(environment): the error is discarded.
TplMarshal(p) ==
    /\ pc[p] = "tpl_marshal"
    /\ data' = [data EXCEPT ![p] = JsonMarshal(environment[p]).data]
    /\ trace' = [trace EXCEPT ![p] = Append(@, "json.Marshal")]
    /\ pc' = [pc EXCEPT ![p] = "tpl_unmarshal"]
    /\ UNCHANGED <<environment, template, vm, heap, todo, vmOut, unstructured, ret>>
    /\ UNCHANGED cvars

\* json.Unmarshal fails: return "", err.
TplUnmarshalFail(p) ==
    /\ pc[p] = "tpl_unmarshal"
    /\ JsonUnmarshal(data[p]).err
    /\ ret' = [ret EXCEPT ![p] = Err("unmarshal", "", "")]
    /\ trace' = [trace EXCEPT ![p] = Append(@, "json.Unmarshal")]
    /\ pc' = [pc EXCEPT ![p] = "done"]
    /\ UNCHANGED <<environment, template, vm, heap, todo, vmOut, data, unstructured>>
    /\ UNCHANGED cvars

TplUnmarshalOk(p) ==
    /\ pc[p] = "tpl_unmarshal"
    /\ LET r == JsonUnmarshal(data[p])
       IN /\ ~r.err
          /\ unstructured' = [unstructured EXCEPT ![p] = r.m]
    /\ trace' = [trace EXCEPT ![p] = Append(@, "json.Unmarshal")]
    /\ pc' = [pc EXCEPT ![p] = "tpl_execute"]
    /\ UNCHANGED <<environment, template, vm, heap, todo, vmOut, data, ret>>
    /\ UNCHANGED cvars

TplExecuteFail_partial(p) ==
    /\ pc[p] = "tpl_execute"
    /\ LET r == TplExecute(template[p].Template, unstructured[p])
       IN /\ r.err
          /\ ret' = [ret EXCEPT ![p] =
                       [s |-> r.buf, err |-> "error executing template",
                        key |-> "", typ |-> ""]]
    /\ trace' = [trace EXCEPT ![p] = Append(@, "Execute")]
    /\ pc' = [pc EXCEPT ![p] = "done"]
    /\ UNCHANGED <<environment, template, vm, heap, todo, vmOut, data, unstructured>>
    /\ UNCHANGED cvars

\* tpl.Execute fails: return "", "error executing template ...".  What was
\* already written to buf is dropped.
TplExecuteFail(p) ==
    /\ pc[p] = "tpl_execute"
    /\ TplExecute(template[p].Template, unstructured[p]).err
    /\ ret' = [ret EXCEPT ![p] = Err("error executing template", "", "")]
    /\ trace' = [trace EXCEPT ![p] = Append(@, "Execute")]
    /\ pc' = [pc EXCEPT ![p] = "done"]
    /\ UNCHANGED <<environment, template, vm, heap, todo, vmOut, data, unstructured>>
    /\ UNCHANGED cvars

\* tpl.Execute succeeds: return strings.TrimSpace(buf.String()), nil.
TplExecuteOk(p) ==
    /\ pc[p] = "tpl_execute"
    /\ LET r == TplExecute(template[p].Template, unstructured[p])
       IN /\ ~r.err
          /\ ret' = [ret EXCEPT ![p] = Ok(TrimSpace(r.buf))]
    /\ trace' = [trace EXCEPT ![p] = @ \o <<"Execute", "TrimSpace">>]
    /\ pc' = [pc EXCEPT ![p] = "done"]
    /\ UNCHANGED <<environment, template, vm, heap, todo, vmOut, data, unstructured>>
    /\ UNCHANGED cvars

(***************************************************************************)
(* Template: the expr path                                                 *)
(***************************************************************************)
\* expr.Compile(body, options...)
CompileFails(body) == body = "("

\* expr.Run(program, env): the value, or a runtime error.
ExprRun(body) ==
    IF body = "1 + 2" THEN [n |-> 1 + 2, err |-> FALSE]
    ELSE [n |-> 0, err |-> TRUE]

Digit(d) == <<"0", "1", "2", "3", "4", "5", "6", "7", "8", "9">>[d + 1]

RECURSIVE Sprint(_)
\* fmt.Sprint of a non-negative integer: its decimal digits.
Sprint(n) == IF n < 10 THEN <<Digit(n)>> ELSE Sprint(n \div 10) \o <<Digit(n % 10)>>

ExprCompileFail(p) ==
    /\ pc[p] = "expr_compile"
    /\ CompileFails(template[p].Expression)
    /\ ret' = [ret EXCEPT ![p] = Err("compile", "", "")]
    /\ trace' = [trace EXCEPT ![p] = Append(@, "expr.Compile")]
    /\ pc' = [pc EXCEPT ![p] = "done"]
    /\ UNCHANGED <<environment, template, vm, heap, todo, vmOut, data, unstructured>>
    /\ UNCHANGED cvars

ExprCompileOk(p) ==
    /\ pc[p] = "expr_compile"
    /\ ~CompileFails(template[p].Expression)
    /\ trace' = [trace EXCEPT ![p] = Append(@, "expr.Compile")]
    /\ pc' = [pc EXCEPT ![p] = "expr_run"]
    /\ UNCHANGED <<environment, template, vm, heap, todo, vmOut, data, unstructured, ret>>
    /\ UNCHANGED cvars

ExprRunFail(p) ==
    /\ pc[p] = "expr_run"
    /\ ExprRun(template[p].Expression).err
    /\ ret' = [ret EXCEPT ![p] = Err("run", "", "")]
    /\ trace' = [trace EXCEPT ![p] = Append(@, "expr.Run")]
    /\ pc' = [pc EXCEPT ![p] = "done"]
    /\ UNCHANGED <<environment, template, vm, heap, todo, vmOut, data, unstructured>>
    /\ UNCHANGED cvars

\* return fmt.Sprint(output), nil
ExprRunOk(p) ==
    /\ pc[p] = "expr_run"
    /\ LET r == ExprRun(template[p].Expression)
       IN /\ ~r.err
          /\ ret' = [ret EXCEPT ![p] = Ok(Sprint(r.n))]
    /\ trace' = [trace EXCEPT ![p] = @ \o <<"expr.Run", "fmt.Sprint">>]
    /\ pc' = [pc EXCEPT ![p] = "done"]
    /\ UNCHANGED <<environment, template, vm, heap, todo, vmOut, data, unstructured>>
    /\ UNCHANGED cvars

\* The caller has the result (or recovered the panic); every local of the
\* call is gone.
Return(p) ==
    /\ pc[p] \in {"done", "panic"}
    /\ pc' = [pc EXCEPT ![p] = "idle"]
    /\ environment' = [environment EXCEPT ![p] = EmptyGlobals]
    /\ template' = [template EXCEPT ![p] =
                      [Javascript |-> "", Template |-> "", Expression |-> ""]]
    /\ todo' = [todo EXCEPT ![p] = {}]
    /\ vmOut' = [vmOut EXCEPT ![p] = NoValue]
    /\ data' = [data EXCEPT ![p] = <<>>]
    /\ unstructured' = [unstructured EXCEPT ![p] = EmptyGlobals]
    /\ ret' = [ret EXCEPT ![p] = NoRet]
    /\ trace' = [trace EXCEPT ![p] = <<>>]
    /\ UNCHANGED <<vm, heap>>
    /\ UNCHANGED cvars

(***************************************************************************)
(* scrapers/aws: FetchCosts and CostScraper.Scrape                         *)
(***************************************************************************)
MaxAws == 2
MaxItems == 2

\* Where FetchCosts fails for a config item, if anywhere.
FetchFailures == {"none", "attrs", "config", "open", "query"}
\* Where the per-account setup of Scrape fails, if anywhere.
SetupFailures == {"none", "session", "identity", "query"}

SeqsUpTo(S, n) == UNION {[1 .. m -> S] : m \in 0 .. n}

ConfigItems == [fail : FetchFailures]
AwsVariants ==
    {[fail |-> f, items |-> <<>>] : f \in SetupFailures \ {"none"}}
    \cup {[fail |-> "none", items |-> s] : s \in SeqsUpTo(ConfigItems, MaxItems)}

ZeroCosts == [Hourly |-> 0, Daily |-> 0, Weekly |-> 0, Monthly |-> 0]
\* What the cost query reports for a resource whose query succeeds.
AthenaCosts == [Hourly |-> 120, Daily |-> 3, Weekly |-> 4, Monthly |-> 5]

\* FetchCosts(ctx, config, ci): (costs, err != nil)
FetchCosts(item) ==
    IF item.fail = "attrs" THEN [costs |-> ZeroCosts, err |-> TRUE]
    ELSE IF item.fail = "config" THEN [costs |-> ZeroCosts, err |-> TRUE]
    ELSE IF item.fail = "open" THEN [costs |-> ZeroCosts, err |-> TRUE]
    ELSE IF item.fail = "query" THEN [costs |-> ZeroCosts, err |-> FALSE]
    ELSE [costs |-> AthenaCosts, err |-> FALSE]

ErrorResult(msg) ==
    [ID |-> <<0, 0>>, Error |-> msg, CostPerMinute |-> 0, CostTotal1d |-> 0,
     CostTotal7d |-> 0, CostTotal30d |-> 0]

\* NewSession, GetCallerIdentity or QueryAWSResources fails:
\* return results.Errorf(err, ...).
ScrapeSetupFail ==
    /\ spc = "config"
    /\ ai <= Len(awsConfigs)
    /\ awsConfigs[ai].fail # "none"
    /\ results' = Append(results, ErrorResult(awsConfigs[ai].fail))
    /\ spc' = "done"
    /\ UNCHANGED <<awsConfigs, ai, configItems, ci>>
    /\ UNCHANGED tvars

ScrapeSetupOk ==
    /\ spc = "config"
    /\ ai <= Len(awsConfigs)
    /\ awsConfigs[ai].fail = "none"
    /\ configItems' = awsConfigs[ai].items
    /\ ci' = 1
    /\ spc' = "items"
    /\ UNCHANGED <<awsConfigs, ai, results>>
    /\ UNCHANGED tvars

\* FetchCosts returned an error: continue.
ScrapeItemSkip ==
    /\ spc = "items"
    /\ ci <= Len(configItems)
    /\ FetchCosts(configItems[ci]).err
    /\ ci' = ci + 1
    /\ UNCHANGED <<spc, awsConfigs, ai, configItems, results>>
    /\ UNCHANGED tvars

\* FetchCosts returned a nil error: append the item's ScrapeResult.
ScrapeItemAppend ==
    /\ spc = "items"
    /\ ci <= Len(configItems)
    /\ LET r == FetchCosts(configItems[ci])
       IN /\ ~r.err
          /\ results' = Append(results,
                 [ID |-> <<ai, ci>>, Error |-> "",
                  CostPerMinute |-> r.costs.Hourly \div 60,
                  CostTotal1d |-> r.costs.Daily,
                  CostTotal7d |-> r.costs.Weekly,
                  CostTotal30d |-> r.costs.Monthly])
    /\ ci' = ci + 1
    /\ UNCHANGED <<spc, awsConfigs, ai, configItems>>
    /\ UNCHANGED tvars

ScrapeNextConfig ==
    /\ spc = "items"
    /\ ci > Len(configItems)
    /\ ai' = ai + 1
    /\ spc' = "config"
    /\ UNCHANGED <<awsConfigs, configItems, ci, results>>
    /\ UNCHANGED tvars

ScrapeReturn ==
    /\ spc = "config"
    /\ ai > Len(awsConfigs)
    /\ spc' = "done"
    /\ UNCHANGED <<awsConfigs, ai, configItems, ci, results>>
    /\ UNCHANGED tvars

(***************************************************************************)
(* Specifications                                                          *)
(***************************************************************************)
TemplateInit ==
    /\ pc = [p \in Procs |-> "idle"]
    /\ environment = [p \in Procs |-> EmptyGlobals]
    /\ template = [p \in Procs |-> [Javascript |-> "", Template |-> "", Expression |-> ""]]
    /\ vm = [p \in Procs |-> 0]
    /\ heap = <<>>
    /\ todo = [p \in Procs |-> {}]
    /\ vmOut = [p \in Procs |-> NoValue]
    /\ data = [p \in Procs |-> <<>>]
    /\ unstructured = [p \in Procs |-> EmptyGlobals]
    /\ ret = [p \in Procs |-> NoRet]
    /\ trace = [p \in Procs |-> <<>>]

ScrapeIdle ==
    /\ spc = "done"
    /\ awsConfigs = <<>>
    /\ ai = 1
    /\ configItems = <<>>
    /\ ci = 1
    /\ results = <<>>

Init == TemplateInit /\ ScrapeIdle

\* One caller rendering one template after another, over all three engines.
Next ==
    \E p \in Caller1 :
        \/ Call(p)
        \/ JsNew(p)
        \/ JsSetOk(p)
        \/ JsSetFail(p)
        \/ JsRunFail(p)
        \/ JsRunOk(p)
        \/ JsReturnString(p)
        \/ JsCastFail(p)
        \/ JsCastPanic(p)
        \/ TplParseFail(p)
        \/ TplParseOk(p)
        \/ TplMarshal(p)
        \/ TplUnmarshalFail(p)
        \/ TplUnmarshalOk(p)
        \/ TplExecuteFail(p)
        \/ TplExecuteOk(p)
        \/ ExprCompileFail(p)
        \/ ExprCompileOk(p)
        \/ ExprRunFail(p)
        \/ ExprRunOk(p)
        \/ Return(p)

Spec == Init /\ [][Next]_vars

\* Two callers rendering scripts concurrently, in any interleaving.
ConcNext ==
    \E p \in Procs :
        \/ ConcCall(p)
        \/ JsNew(p)
        \/ JsSetOk(p)
        \/ JsSetFail(p)
        \/ JsRunFail(p)
        \/ JsRunOk(p)
        \/ JsReturnString(p)
        \/ JsCastFail(p)
        \/ JsCastPanic(p)
        \/ Return(p)

ConcSpec == Init /\ [][ConcNext]_vars

\* One Scrape over a configuration with up to MaxAws accounts.
ScrapeInit ==
    /\ TemplateInit
    /\ spc = "config"
    /\ awsConfigs \in SeqsUpTo(AwsVariants, MaxAws)
    /\ ai = 1
    /\ configItems = <<>>
    /\ ci = 1
    /\ results = <<>>

ScrapeNext ==
    \/ ScrapeSetupFail
    \/ ScrapeSetupOk
    \/ ScrapeItemSkip
    \/ ScrapeItemAppend
    \/ ScrapeNextConfig
    \/ ScrapeReturn

ScrapeSpec == ScrapeInit /\ [][ScrapeNext]_vars

(***************************************************************************)
(* Properties                                                              *)
(***************************************************************************)
Finished(p) == pc[p] \in {"done", "panic"}
Ops(p) == {trace[p][i] : i \in 1 .. Len(trace[p])}
Engines(p) == {EngineOf(op) : op \in Ops(p)}
IsPrefix(s, t) == Len(s) <= Len(t) /\ SubSeq(t, 1, Len(s)) = s

\* The documented precedence: the first non-empty field, in this order.
FieldOrder == <<"Javascript", "Template", "Expression">>
FieldEngine == <<"javascript", "gotemplate", "expr">>
NonEmptyFields(t) == {i \in 1 .. Len(FieldOrder) : t[FieldOrder[i]] # ""}
FirstNonEmpty(t) ==
    IF NonEmptyFields(t) = {} THEN "none"
    ELSE FieldEngine[CHOOSE i \in NonEmptyFields(t) : \A j \in NonEmptyFields(t) : i <= j]

\* C1: a call only ever uses the engine of the first non-empty field in the
\* order Javascript, Template, Expression; a finished call with a non-empty
\* field has used exactly that engine, also when it failed (no fallback).
C1_OneEngine ==
    \A p \in Procs :
        pc[p] # "idle" =>
            /\ Engines(p) \subseteq {FirstNonEmpty(template[p])}
            /\ (Finished(p) /\ FirstNonEmpty(template[p]) # "none"
                   => Engines(p) = {FirstNonEmpty(template[p])})

\* A failed script render whose template and expression fields are set too.
C1_Witness ==
    \E p \in Procs :
        /\ pc[p] = "done"
        /\ ret[p].err = "failed to run javascript"
        /\ template[p].Template = " lit "
        /\ template[p].Expression = "1 + 2"
        /\ Engines(p) = {"javascript"}

\* C2: a call that returned an error returned the empty string with it.
C2_NoOutputWithError ==
    \A p \in Procs : pc[p] = "done" /\ ret[p].err # "nil" => ret[p].s = EmptyStr

\* Execution failed after part of the output had been written to the buffer.
C2_Witness ==
    \E p \in Procs :
        /\ pc[p] = "done"
        /\ ret[p].err = "error executing template"
        /\ TplExecute(template[p].Template, unstructured[p]).buf # EmptyStr

\* C3: with all three fields empty the call is finished at once with
\* ("", nil): no interpreter, no parse, no compile, no marshal.
C3_EmptySpec ==
    \A p \in Procs :
        pc[p] # "idle" /\ NonEmptyFields(template[p]) = {} =>
            /\ pc[p] = "done"
            /\ ret[p] = Ok(EmptyStr)
            /\ trace[p] = <<>>
            /\ vm[p] = 0
            /\ data[p] = <<>>

\* An empty specification rendered against a non-empty environment.
C3_Witness ==
    \E p \in Procs :
        /\ pc[p] = "done"
        /\ NonEmptyFields(template[p]) = {}
        /\ environment[p]["x"] = "func"
        /\ environment[p]["NaN"] = "str"

OnTemplatePath(p) ==
    pc[p] # "idle" /\ template[p].Javascript = "" /\ template[p].Template # ""
HasFunc(e) == \E k \in Keys : e[k] = "func"
\* Whether a template body refers to environment key k.
References(body, k) == k = "x" /\ body \in {"{{.x}}", "a{{.x.y}}"}

\* C4 as stated: on the template path a function-valued entry is dropped and
\* a well-formed template that does not refer to it renders without error.
C4_Claim ==
    \A p \in Procs :
        /\ OnTemplatePath(p)
        /\ pc[p] = "done"
        /\ template[p].Template # "{{"
        /\ HasFunc(environment[p])
        /\ \A k \in Keys : environment[p][k] = "func"
                             => ~References(template[p].Template, k)
        => ret[p].err = "nil"

\* C4 (amended): on the template path a function-valued entry makes the
\* render fail whatever the template refers to: the call ends with an error
\* and the empty string, the template is never executed, and once the
\* environment has been marshalled the error is the unmarshal error.
C4_MarshalFailureFatal ==
    \A p \in Procs :
        OnTemplatePath(p) /\ pc[p] = "done" /\ HasFunc(environment[p]) =>
            /\ ret[p].err # "nil"
            /\ ret[p].s = EmptyStr
            /\ "Execute" \notin Ops(p)
            /\ ("json.Marshal" \in Ops(p) => ret[p].err = "unmarshal")

\* A template that only refers to the string entry x, rendered against an
\* environment that also holds a function under another key.
C4_Witness ==
    \E p \in Procs :
        /\ OnTemplatePath(p)
        /\ pc[p] = "done"
        /\ template[p].Template = "{{.x}}"
        /\ environment[p]["x"] = "str"
        /\ environment[p]["NaN"] = "func"
        /\ ret[p].err = "unmarshal"

\* C5 as stated: once the script has run, the call returns the script's
\* value if it exports as a string, and otherwise returns an error carrying
\* the name of the exported type (undefined and null included).
C5_Claim ==
    \A p \in Procs :
        Finished(p) /\ vmOut[p].kind # "none" =>
            IF vmOut[p].kind = "string"
            THEN pc[p] = "done" /\ ret[p] = Ok(vmOut[p].s)
            ELSE /\ pc[p] = "done"
                 /\ ret[p].err = "failed to cast output to string"
                 /\ ret[p].s = EmptyStr
                 /\ ret[p].typ = TypeName(ExportType(vmOut[p]))

\* C6: the script body runs only after every entry of the environment has
\* been bound; a failed binding ends the call with an error naming a key of
\* the environment whose binding fails, and the script body is never run
\* when the environment holds such a key, whatever the iteration order.
C6_BindAllOrAbort ==
    \A p \in Procs :
        /\ pc[p] = "js_export" => heap[vm[p]] = environment[p]
        /\ ret[p].err = "error setting" =>
              /\ "vm.RunString" \notin Ops(p)
              /\ ret[p].key \in Present(environment[p]) \cap ReadOnlyGlobals
        /\ Present(environment[p]) \cap ReadOnlyGlobals # {} =>
              "vm.RunString" \notin Ops(p)

\* A binding failed after two other entries had been bound.
C6_Witness ==
    \E p \in Procs :
        /\ pc[p] = "done"
        /\ ret[p].err = "error setting"
        /\ trace[p] = <<"goja.New", "vm.Set", "vm.Set">>
        /\ Present(environment[p]) = Keys

Solo(e, t) ==
    IF \E k \in Present(e) : VmSetFails(k, e[k])
    THEN [pc |-> "done", err |-> "error setting", s |-> EmptyStr]
    ELSE LET r == JsEval(t.Javascript, e)
         IN IF r.err
            THEN [pc |-> "done", err |-> "failed to run javascript", s |-> EmptyStr]
            ELSE IF ExportType(r.val) = "string"
                 THEN [pc |-> "done", err |-> "nil", s |-> r.val.s]
            ELSE IF ExportType(r.val) = "nil"
                 THEN [pc |-> "panic", err |-> "pending", s |-> EmptyStr]
            ELSE [pc |-> "done", err |-> "failed to cast output to string",
                  s |-> EmptyStr]

\* C8: concurrent calls never hold the same interpreter; an interpreter holds
\* exactly the entries its own call has bound so far; and every finished
\* call ended as it would have ended running alone.
C8_Isolation ==
    /\ \A p, q \in Procs : p # q /\ vm[p] # 0 => vm[p] # vm[q]
    /\ \A p \in Procs :
          vm[p] # 0 =>
              /\ vm[p] \in DOMAIN heap
              /\ \A k \in Keys :
                    heap[vm[p]][k] =
                        IF k \in Present(environment[p]) \ todo[p]
                        THEN environment[p][k] ELSE Absent
    /\ \A p \in Procs :
          Finished(p) =>
              [pc |-> pc[p], err |-> ret[p].err, s |-> ret[p].s]
                  = Solo(environment[p], template[p])

\* Two calls in flight at once, one with x bound, the other about to run a
\* script that reads x from an environment without it.
C8_Witness ==
    \E p, q \in Procs :
        /\ p # q
        /\ vm[p] # 0
        /\ vm[q] # 0
        /\ heap[vm[p]]["x"] = "str"
        /\ pc[q] = "js_bind"
        /\ todo[q] = {}
        /\ environment[q]["x"] = Absent
        /\ template[q].Javascript = "x"

\* C9: the template path runs parse, marshal, unmarshal, execute, trim in
\* that order, each at most once; a parse error is returned with nothing
\* marshalled; after a parse or unmarshal error the template is not executed.
C9_Pipeline ==
    \A p \in Procs :
        OnTemplatePath(p) =>
            /\ IsPrefix(trace[p],
                   <<"Parse", "json.Marshal", "json.Unmarshal", "Execute", "TrimSpace">>)
            /\ (ret[p].err = "parse" => trace[p] = <<"Parse">> /\ data[p] = <<>>)
            /\ (ret[p].err \in {"parse", "unmarshal"} => "Execute" \notin Ops(p))

\* A malformed template rendered against a non-empty environment.
C9_Witness ==
    \E p \in Procs :
        /\ OnTemplatePath(p)
        /\ pc[p] = "done"
        /\ ret[p].err = "parse"
        /\ environment[p]["x"] = "str"

\* C10 as stated: every cost result appended by Scrape belongs to a config
\* item for which every step of FetchCosts succeeded.
C10_Claim ==
    \A i \in 1 .. Len(results) :
        results[i].Error = "" =>
            awsConfigs[results[i].ID[1]].items[results[i].ID[2]].fail = "none"

====
